---- MODULE Spec2Model ----
(***************************************************************************)
(* ShorterWithoutUTM: a URL shortener over one table, short_urls.          *)
(*                                                                         *)
(* The model follows src/unnamed/part_000 (src/main.go has the same        *)
(* handlers and differs only in the text of the response bodies).          *)
(*                                                                         *)
(* Strings that the program parses (URLs) are sequences of tokens: a       *)
(* token is a piece of text that net/url treats as a whole (a scheme, an   *)
(* authority, a path element, an escape, text without a delimiter), or     *)
(* one of the delimiters "?" and "#"; the string is the concatenation of   *)
(* its tokens.                                                             *)
(* Strings that the program only compares or concatenates (short codes,    *)
(* keys, the domain, bodies) are TLA+ strings.                             *)
(***************************************************************************)
EXTENDS Naturals, Sequences, FiniteSets, TLC

\* Number of connections that can have a request at the same time, read or
\* still to be read.  The connections that were served and are kept alive
\* for a next request are not counted: an idle slot stands for any of them,
\* and for a connection not yet made.
MaxReq == 2

ReqIds == 1..MaxReq

\* Values generateShortCode can return (shortid gives no guarantee against
\* a code that is already in the table, so a code can come back).
Codes == {"c1", "c2"}

\* The code in the request path: "/" gives "", "/c1" gives "c1".
PathCodes == Codes \cup {""}

\* admin.key as the configuration file can set it, and its default.
AdminKeys == {"DEFAULT_KEY", ""}

\* Values of the Authorization header; "" is what Header.Get returns when
\* the header is absent.
AuthHeaders == {"DEFAULT_KEY", "default_key", ""}

-----------------------------------------------------------------------------
(* net/url as removeQueryParams and getFinalURL use it (go.mod: go 1.22) *)

Range(s) == {s[i] : i \in 1..Len(s)}

Count(s, t) == Cardinality({i \in 1..Len(s) : s[i] = t})

\* strings.Cut(s, t): the part before the first t (all of s when t is absent)
CutBefore(s, t) ==
    IF t \in Range(s)
    THEN SubSeq(s, 1, (CHOOSE i \in 1..Len(s) :
                          s[i] = t /\ \A j \in 1..(i - 1) : s[j] # t) - 1)
    ELSE s

\* strings.Cut(s, t): the part after the first t (empty when t is absent)
CutAfter(s, t) ==
    IF t \in Range(s)
    THEN SubSeq(s, (CHOOSE i \in 1..Len(s) :
                       s[i] = t /\ \A j \in 1..(i - 1) : s[j] # t) + 1, Len(s))
    ELSE <<>>

\* The tokens a URL string is written with.  A scheme token is the scheme
\* with its ":"; a host token is "//" with the authority; a segment token is
\* "/" with one path element ("/" alone is the empty element); a token of
\* RelSegments is a path element that no "/" precedes, as a relative
\* reference begins with.  Any other token is text that belongs to the
\* segment, the query or the fragment it stands in.
Schemes == {"http:", "HTTP:"}

Hosts == {"//example.com", "//EXAMPLE.com", "//r.example", "//down.example"}

Segments == {"/", "/page", "/a", "/b", "/c", "/x", "/.", "/..",
             "/pa ge", "/pa%20ge", "/%zz"}

RelSegments == {"b", ".", ".."}

\* "/" + elem for the elements of RelSegments
Slash(tok) ==
    CASE tok = "b"  -> "/b"
      [] tok = "."  -> "/."
      [] tok = ".." -> "/.."
      [] OTHER      -> tok

\* strings.ToLower on a scheme
ToLower(tok) == IF tok = "HTTP:" THEN "http:" ELSE tok

\* Tokens that hold "%" without two hexadecimal digits after it
BadEscapes == {"%zz", "/%zz"}

\* unescape: an EscapeError for a bad escape, else each %XX decoded
unescapeErr(s) == \E i \in 1..Len(s) : s[i] \in BadEscapes

unescape(s) ==
    [i \in 1..Len(s) |->
        CASE s[i] = "%23"      -> "#"
          [] s[i] = "%20"      -> " "
          [] s[i] = "/pa%20ge" -> "/pa ge"
          [] OTHER             -> s[i]]

\* shouldEscape by mode: a space and "#" are escaped everywhere, "?" in a
\* path and not in a fragment
escape(s, mode) ==
    [i \in 1..Len(s) |->
        CASE s[i] = " "      -> "%20"
          [] s[i] = "#"      -> "%23"
          [] s[i] = "/pa ge" -> "/pa%20ge"
          [] s[i] = "?"      -> IF mode = "encodePath" THEN "%3F" ELSE "?"
          [] OTHER           -> s[i]]

\* validEncoded: no byte that escape would change ("%" itself is let through)
validEncoded(s, mode) ==
    \A i \in 1..Len(s) :
        /\ s[i] \notin {" ", "#", "/pa ge"}
        /\ mode = "encodePath" => s[i] # "?"

\* (*URL).setPath: Path is the decoded form, RawPath is kept only when it is
\* not what escape gives for Path
setPath(u, p) ==
    [u EXCEPT !.Path    = unescape(p),
              !.RawPath = IF escape(unescape(p), "encodePath") = p THEN <<>> ELSE p]

\* (*URL).setFragment
setFragment(u, f) ==
    [u EXCEPT !.Fragment    = unescape(f),
              !.RawFragment = IF escape(unescape(f), "encodeFragment") = f
                              THEN <<>> ELSE f]

\* The zero URL, with err for the error that Parse returns beside it
NoURL ==
    [err |-> FALSE, Scheme |-> "", Opaque |-> <<>>, Host |-> "",
     Path |-> <<>>, RawPath |-> <<>>, OmitHost |-> FALSE,
     ForceQuery |-> FALSE, RawQuery |-> <<>>,
     Fragment |-> <<>>, RawFragment |-> <<>>]

\* url.parse, from the authority on: a scheme followed by no "/" gives an
\* opaque URL; "//" opens the authority, kept as written; the path is
\* decoded, and a bad escape in it is an error
parseAuthority(url, rest) ==
    IF url.Scheme # "" /\ ~(rest # <<>> /\ rest[1] \in Segments \cup Hosts)
    THEN [url EXCEPT !.Opaque = rest]
    ELSE IF rest # <<>> /\ rest[1] \in Hosts
    THEN [setPath([url EXCEPT !.Host = rest[1]], Tail(rest))
             EXCEPT !.err = unescapeErr(Tail(rest))]
    ELSE [setPath([url EXCEPT !.OmitHost = (url.Scheme # "")], rest)
             EXCEPT !.err = unescapeErr(rest)]

\* url.parse, the query: a lone trailing "?" sets ForceQuery, otherwise the
\* query is what follows the first "?"
parseQuery(url, rest) ==
    IF rest # <<>> /\ rest[Len(rest)] = "?" /\ Count(rest, "?") = 1
    THEN parseAuthority([url EXCEPT !.ForceQuery = TRUE],
                        SubSeq(rest, 1, Len(rest) - 1))
    ELSE parseAuthority([url EXCEPT !.RawQuery = CutAfter(rest, "?")],
                        CutBefore(rest, "?"))

\* url.parse: the scheme is taken off and lower-cased
parse(rawURL) ==
    IF rawURL # <<>> /\ rawURL[1] \in Schemes
    THEN parseQuery([NoURL EXCEPT !.Scheme = ToLower(rawURL[1])], Tail(rawURL))
    ELSE parseQuery(NoURL, rawURL)

\* url.Parse, the fragment: decoded, and a bad escape in it is an error
parseFragment(url, frag) ==
    [setFragment(url, frag) EXCEPT !.err = url.err \/ unescapeErr(frag)]

\* url.Parse: the fragment is cut off at the first "#" and the rest parsed
Parse(rawURL) ==
    parseFragment(parse(CutBefore(rawURL, "#")), CutAfter(rawURL, "#"))

\* (*URL).EscapedPath: RawPath when it is a valid encoding of Path
EscapedPath(u) ==
    IF /\ u.RawPath # <<>>
       /\ validEncoded(u.RawPath, "encodePath")
       /\ unescape(u.RawPath) = u.Path
    THEN u.RawPath
    ELSE escape(u.Path, "encodePath")

\* (*URL).EscapedFragment
EscapedFragment(u) ==
    IF /\ u.RawFragment # <<>>
       /\ validEncoded(u.RawFragment, "encodeFragment")
       /\ unescape(u.RawFragment) = u.Fragment
    THEN u.RawFragment
    ELSE escape(u.Fragment, "encodeFragment")

\* (*URL).String().  The two prefixes it can put before the path ("/" for a
\* path without one after a host, "./" for a first element with a colon)
\* are for paths that Parse and ResolveReference do not produce here.
URLString(u) ==
    (IF u.Scheme # "" THEN <<u.Scheme>> ELSE <<>>)
    \o (IF u.Opaque # <<>>
        THEN u.Opaque
        ELSE (IF u.Host # ""
              THEN <<u.Host>>
              ELSE IF u.Scheme # "" /\ u.Path # <<>> /\ ~u.OmitHost
                   THEN <<"//">>
                   ELSE <<>>)
             \o EscapedPath(u))
    \o (IF u.ForceQuery \/ u.RawQuery # <<>> THEN <<"?">> \o u.RawQuery ELSE <<>>)
    \o (IF u.Fragment # <<>> THEN <<"#">> \o EscapedFragment(u) ELSE <<>>)

removeQueryParams(urlStr) ==
    LET parsedURL == Parse(urlStr)
    IN  IF parsedURL.err
        THEN urlStr
        ELSE URLString([parsedURL EXCEPT !.RawQuery = <<>>])

\* Whether the token at i is a whole path element: a segment token that no
\* further text follows
WholeSegment(s, i) ==
    s[i] \in Segments /\ (i = Len(s) \/ s[i + 1] \in Segments)

\* s without its last path element: s up to its last segment token
DropLastSegment(s) ==
    LET at == {i \in 1..Len(s) : s[i] \in Segments}
    IN  IF at = {}
        THEN <<>>
        ELSE SubSeq(s, 1, (CHOOSE i \in at : \A j \in at : j <= i) - 1)

\* resolvePath builds its result in dst, which begins with a "/" of its
\* own: st.dst is what has been written after it; st.first says that the
\* next element is written without a "/" before it; st.bare says that the
\* first element in st.dst was written so.

\* resolvePath, the element "..": what has been written is cut at its last
\* "/"; when it has none, nothing is left and the next element is written
\* as the first one
dotDot(st) ==
    LET at == {i \in 1..Len(st.dst) :
                  st.dst[i] \in Segments /\ ~(i = 1 /\ st.bare)}
    IN  IF at = {}
        THEN [dst |-> <<>>, first |-> TRUE, bare |-> FALSE]
        ELSE [st EXCEPT !.dst = SubSeq(st.dst, 1,
                                  (CHOOSE i \in at : \A j \in at : j <= i) - 1)]

\* resolvePath, any other element: written after a "/", or as the first
\* one without it, so that an empty first element writes nothing
writeElem(st, tok, whole) ==
    IF st.first
    THEN IF tok = "/" /\ whole
         THEN [st EXCEPT !.first = FALSE]
         ELSE [dst |-> <<tok>>, first |-> FALSE, bare |-> TRUE]
    ELSE [st EXCEPT !.dst = Append(@, tok)]

\* The loop of resolvePath: "." is dropped, ".." takes the element before it
\* away, any other element is written
RECURSIVE removeDotSegments(_, _, _)
removeDotSegments(full, i, st) ==
    IF i > Len(full)
    THEN st.dst
    ELSE IF WholeSegment(full, i) /\ full[i] = "/."
    THEN removeDotSegments(full, i + 1, [st EXCEPT !.first = FALSE])
    ELSE IF WholeSegment(full, i) /\ full[i] = "/.."
    THEN removeDotSegments(full, i + 1, dotDot(st))
    ELSE removeDotSegments(full, i + 1,
                           writeElem(st, full[i], WholeSegment(full, i)))

\* resolvePath, from full on: rooted says that full begins with "/", so that
\* its first element, the empty one, has been written; the result ends with
\* "/" when the last element was a dot element, and loses the "/" that dst
\* began with when another follows it
cleanPath(full, rooted) ==
    LET dst == removeDotSegments(full, 1,
                   [dst |-> <<>>, first |-> ~rooted, bare |-> FALSE])
               \o (IF full[Len(full)] \in {"/.", "/.."} THEN <<"/">> ELSE <<>>)
    IN  IF dst = <<>> THEN <<"/">> ELSE dst

\* resolvePath(base, ref): a ref that no "/" begins replaces the last
\* element of base, and stands alone when base has no "/"
resolvePath(base, ref) ==
    LET full == IF ref = <<>>
                THEN base
                ELSE IF ref[1] \in Segments
                THEN ref
                ELSE IF \E i \in 1..Len(base) : base[i] \in Segments
                THEN DropLastSegment(base) \o <<Slash(ref[1])>> \o Tail(ref)
                ELSE ref
    IN  IF full = <<>>
        THEN <<>>
        ELSE IF full[1] \in Segments
        THEN cleanPath(full, TRUE)
        ELSE cleanPath(<<Slash(full[1])>> \o Tail(full), FALSE)

\* (*URL).ResolveReference
ResolveReference(u, ref) ==
    LET url == [ref EXCEPT !.Scheme = IF ref.Scheme = "" THEN u.Scheme ELSE @]
        inherit == ref.Path = <<>> /\ ~ref.ForceQuery /\ ref.RawQuery = <<>>
        url2 == [url EXCEPT
                    !.RawQuery    = IF inherit THEN u.RawQuery ELSE @,
                    !.Fragment    = IF inherit /\ ref.Fragment = <<>>
                                    THEN u.Fragment ELSE @,
                    !.RawFragment = IF inherit /\ ref.Fragment = <<>>
                                    THEN u.RawFragment ELSE @]
    IN  IF ref.Scheme # "" \/ ref.Host # ""
        THEN setPath(url, resolvePath(EscapedPath(ref), <<>>))
        ELSE IF ref.Opaque # <<>>
        THEN [url EXCEPT !.Host = "", !.Path = <<>>]
        ELSE IF ref.Path = <<>> /\ u.Opaque # <<>>
        THEN [url2 EXCEPT !.Opaque = u.Opaque, !.Host = "", !.Path = <<>>]
        ELSE setPath([url2 EXCEPT !.Host = u.Host],
                     resolvePath(EscapedPath(u), EscapedPath(ref)))

isRedirect(statusCode) == statusCode >= 300 /\ statusCode <= 399

-----------------------------------------------------------------------------
(* The web the probes go to *)

Page   == <<"http:", "//example.com", "/page">>
PageX  == <<"http:", "//example.com", "/page", "?", "x=1">>
PageY  == <<"http:", "//example.com", "/page", "?", "y=2">>
PageQ  == <<"http:", "//example.com", "/page", "?">>
HopA   == <<"http:", "//r.example", "/a">>
HopB   == <<"http:", "//r.example", "/b">>
HopBK  == <<"http:", "//r.example", "/b", "?", "k=1">>
Down   == <<"http:", "//down.example", "/">>
BadLoc == <<"http:", "//r.example", "/c">>
NoLoc  == <<"http:", "//r.example", "/x">>

\* The long_url form values the requests carry; <<>> is the absent or
\* empty field.
LongURLs == {<<>>, PageX, PageQ, HopA, HopB, Down, BadLoc, NoLoc}

NoAnswer == [fail |-> TRUE, StatusCode |-> 0, hasLoc |-> FALSE, loc |-> <<>>]

\* What a HEAD request for each URL meets: a transport failure, or a
\* response with a status and, with hasLoc, the value of its Location
\* header.  Statuses 299, 300, 399 and 400 are the edges of isRedirect.  The
\* Location of HopA is relative and names HopBK, which redirects in its
\* turn; that of HopB and HopBK names PageY with an upper-case scheme,
\* dot elements that go above the root and an empty element after them;
\* that of BadLoc does not parse; that of NoLoc is empty.
Web(urlStr) ==
    CASE urlStr = PageX -> [fail |-> FALSE, StatusCode |-> 400, hasLoc |-> TRUE,  loc |-> HopA]
      [] urlStr = PageY -> [fail |-> FALSE, StatusCode |-> 200, hasLoc |-> FALSE, loc |-> <<>>]
      [] urlStr = PageQ -> [fail |-> FALSE, StatusCode |-> 299, hasLoc |-> TRUE,  loc |-> HopA]
      [] urlStr = HopA  -> [fail |-> FALSE, StatusCode |-> 302, hasLoc |-> TRUE,
                            loc |-> <<"b", "?", "k=1">>]
      [] urlStr \in {HopB, HopBK}
                        -> [fail |-> FALSE, StatusCode |-> 399, hasLoc |-> TRUE,
                            loc |-> <<"HTTP:", "//example.com", "/x", "/..", "/..",
                                      "/", "/page", "?", "y=2">>]
      [] urlStr = BadLoc -> [fail |-> FALSE, StatusCode |-> 300, hasLoc |-> TRUE,
                             loc |-> <<"http:", "//r.example", "/%zz">>]
      [] urlStr = NoLoc -> [fail |-> FALSE, StatusCode |-> 301, hasLoc |-> TRUE,
                            loc |-> <<>>]
      [] OTHER          -> NoAnswer

\* client.Head with CheckRedirect returning ErrUseLastResponse: no request
\* is sent for a URL that does not parse, or that has another scheme than
\* http and https, or no host; the request goes out for the URL without its fragment;
\* redirects are not followed, so that Request is the request for urlStr.
clientHead(urlStr) ==
    LET u == Parse(urlStr)
    IN  IF u.err \/ u.Scheme \notin {"http:", "https:"} \/ u.Host = ""
        THEN NoAnswer @@ [Request |-> u]
        ELSE Web(URLString([u EXCEPT !.Fragment = <<>>, !.RawFragment = <<>>]))
             @@ [Request |-> u]

\* (*URL).Parse(ref), with ref parsed: the error of the parse, or ref
\* resolved against u
URLParse(u, refURL) ==
    IF refURL.err
    THEN [err |-> TRUE, url |-> NoURL]
    ELSE [err |-> FALSE, url |-> ResolveReference(u, refURL)]

\* resp.Location(): ErrNoLocation when the header is absent or empty, else
\* the value parsed and resolved against the URL of the request
Location(resp) ==
    IF ~resp.hasLoc \/ resp.loc = <<>>
    THEN [err |-> TRUE, url |-> NoURL]
    ELSE URLParse(resp.Request, Parse(resp.loc))

\* the mutant of getFinalURL: the redirection of the Location followed too
getFinalURLTwoHops(urlStr) ==
    LET resp == clientHead(urlStr)
    IN  IF resp.fail
        THEN [err |-> TRUE, url |-> <<>>]
        ELSE IF isRedirect(resp.StatusCode)
             THEN LET locationURL == Location(resp)
                      next == clientHead(URLString(locationURL.url))
                  IN  IF locationURL.err
                      THEN [err |-> TRUE, url |-> <<>>]
                      ELSE IF ~next.fail /\ isRedirect(next.StatusCode)
                              /\ ~Location(next).err
                      THEN [err |-> FALSE, url |-> URLString(Location(next).url)]
                      ELSE [err |-> FALSE, url |-> URLString(locationURL.url)]
             ELSE [err |-> FALSE, url |-> urlStr]

\* the mutant of getFinalURL: on an error the submitted URL is kept
getFinalURLKeepsInput(urlStr) ==
    LET resp == clientHead(urlStr)
    IN  IF resp.fail
        THEN [err |-> FALSE, url |-> urlStr]
        ELSE IF isRedirect(resp.StatusCode)
             THEN LET locationURL == Location(resp)
                  IN  IF locationURL.err
                      THEN [err |-> FALSE, url |-> urlStr]
                      ELSE [err |-> FALSE, url |-> URLString(locationURL.url)]
             ELSE [err |-> FALSE, url |-> urlStr]

getFinalURL(urlStr) ==
    LET resp == clientHead(urlStr)
    IN  IF resp.fail
        THEN [err |-> TRUE, url |-> <<>>]
        ELSE IF isRedirect(resp.StatusCode)
             THEN LET locationURL == Location(resp)
                  IN  IF locationURL.err
                      THEN [err |-> TRUE, url |-> <<>>]
                      ELSE [err |-> FALSE, url |-> URLString(locationURL.url)]
             ELSE [err |-> FALSE, url |-> urlStr]

-----------------------------------------------------------------------------
(* State *)

VARIABLES
    short_urls,  \* the table: a set of rows [short_code, long_url] (the id
                 \* column is assigned by the datastore and read by no handler)
    dbMutex,     \* 0 when free, else the create request that holds it
    domain,      \* main.domain
    adminKey,    \* admin.key
    req,         \* the connections: the position of the request of each
                 \* (pc, "idle" when it has none or its handler has returned),
                 \* and for a create its locals and its response
    returned,    \* history: the rows that a create answered 200 with, minus
                 \* those whose code a DELETE statement has run for since
    main         \* func main: the statement it is at (pc), the startup
                 \* statements it has completed (done), whether Shutdown
                 \* has seen a connection that is not idle (busy), whether
                 \* server.Serve has returned an error (failed), the
                 \* connections that Shutdown has closed after their request
                 \* was read, whose handler runs all the same (lost), and
                 \* the connections whose handler has returned and whose
                 \* state the server has still as active (finishing)

vars == <<short_urls, dbMutex, domain, adminKey, req, returned, main>>

\* What a handler writes to its http.ResponseWriter: status, body and, for
\* a redirect, the Location header (the HTML body of http.Redirect is left
\* out)
Response(status, body, location) ==
    [status |-> status, body |-> body, location |-> location]

NoResponse == Response(0, "", <<>>)

Idle == [pc |-> "idle", longURL |-> <<>>, cleanURL |-> <<>>, shortCode |-> "",
         w |-> NoResponse]

\* The statements of main that come before the server serves, in order
Startup == <<"Ping", "initDB", "adminKey", "domain", "Listen", "Serve">>

\* main waits at <-quit and the server serves
Serving == [pc |-> "quit", done |-> Range(Startup), busy |-> FALSE,
            failed |-> FALSE, lost |-> {}, finishing |-> {}]

\* The server as it serves: the startup of main has completed
Init ==
    /\ short_urls = {}
    /\ dbMutex = 0
    /\ domain = "http://localhost"
    /\ adminKey \in AdminKeys
    /\ req = [r \in ReqIds |-> Idle]
    /\ returned = {}
    /\ main = Serving

\* the mutant of Accepting: the listener and the idle connections left
\* open by Shutdown
AcceptingInShutdown == main.pc \in {"quit", "Shutdown"}

\* A request can come in: the listener is open and server.Serve accepts
\* from it, or Shutdown has closed the listener and not yet the connections
\* that are kept alive, which it does when it first polls
Accepting ==
    \/ main.pc = "quit"
    \/ main.pc = "Shutdown" /\ ~main.busy

\* The process runs and the server has started: the goroutines of the
\* connections it has accepted take their steps, Shutdown called or not,
\* returned or not
Running == main.pc \in {"quit", "Shutdown", "exiting"}

\* server.Serve accepts a connection and starts its goroutine, which reads
\* the request and calls its handler, or the goroutine of a connection that
\* is kept alive finds its next request (pc = "conn" until the handler is
\* at its first statement on what the requests share)
Accept(r) ==
    /\ Accepting
    /\ req[r].pc = "idle"
    /\ r \notin main.finishing
    /\ req' = [req EXCEPT ![r].pc = "conn"]
    /\ UNCHANGED <<short_urls, dbMutex, domain, adminKey, returned, main>>

\* The handler of connection r returns to conn.serve: the request has
\* completed, the state of the connection is active as before
Returned(r) == [main EXCEPT !.finishing = @ \cup {r}]

\* conn.serve after the handler: w.finishRequest() flushes the response,
\* then the connection is closed, or its state set to idle and, the server
\* shutting down, closed just the same
FinishRequest(r) ==
    /\ Running
    /\ r \in main.finishing
    /\ main' = [main EXCEPT !.finishing = @ \ {r}, !.lost = @ \ {r}]
    /\ UNCHANGED <<short_urls, dbMutex, domain, adminKey, req, returned>>

Row(code, url) == [short_code |-> code, long_url |-> url]

\* SELECT ... WHERE short_code = ?
RowsByCode(code) == {row \in short_urls : row.short_code = code}

\* SELECT ... WHERE long_url = ?
RowsByURL(url) == {row \in short_urls : row.long_url = url}

\* domain+"/"+code
ShortURL(code) == domain \o "/" \o code

-----------------------------------------------------------------------------
(* handleCreateShortURL, one action per step between two accesses to what
   the requests share.  The response goes into w; the handler returns from
   pc = "return", where a deferred Unlock runs. *)

\* the mutant of CreateRecv: the test of the empty long_url dropped
CreateRecvNoCheck(r, longURL) ==
    /\ Running
    /\ req[r].pc = "conn"
    /\ req' = [req EXCEPT ![r].pc = "probe", ![r].longURL = longURL]
    /\ UNCHANGED <<short_urls, dbMutex, domain, adminKey, returned, main>>

\* r.FormValue("long_url") and the check of it
CreateRecv(r, longURL) ==
    /\ Running
    /\ req[r].pc = "conn"
    /\ IF longURL = <<>>
       THEN req' = [req EXCEPT ![r].pc = "return",
                               ![r].w = Response(400, "Missing long_url parameter", <<>>)]
       ELSE req' = [req EXCEPT ![r].pc = "probe", ![r].longURL = longURL]
    /\ UNCHANGED <<short_urls, dbMutex, domain, adminKey, returned, main>>

\* shortid.MustGenerate(): any code, one in the table included
generateShortCode == Codes

\* getFinalURL, removeQueryParams and generateShortCode: no lock is held
CreateProbe(r) ==
    /\ Running
    /\ req[r].pc = "probe"
    /\ LET final == getFinalURL(req[r].longURL)
       IN  IF final.err
           THEN req' = [req EXCEPT ![r].pc = "return",
                                   ![r].w = Response(500, "Failed to resolve redirection", <<>>)]
           ELSE \E code \in generateShortCode :
                   req' = [req EXCEPT ![r].pc = "lock",
                                      ![r].cleanURL = removeQueryParams(final.url),
                                      ![r].shortCode = code]
    /\ UNCHANGED <<short_urls, dbMutex, domain, adminKey, returned, main>>

\* the mutant of Lock: the lock taken without waiting for it to be free
LockNoWait(r) ==
    dbMutex' = r

\* dbMutex.Lock()
Lock(r) ==
    /\ dbMutex = 0
    /\ dbMutex' = r

\* the mutant of Unlock: the Unlock deferred at the top of the handler, so
\* that a handler that returns before Lock releases the mutex of another
UnlockDeferredFirst(r) ==
    dbMutex' = 0

\* the mutant of Unlock: the mutex released by a statement at the end of
\* the handler, which the returns of the error paths do not reach
UnlockAtEnd(r) ==
    dbMutex' = IF dbMutex = r /\ req[r].w.status = 200 THEN 0 ELSE dbMutex

\* the deferred dbMutex.Unlock(): deferred only once Lock has returned
Unlock(r) ==
    dbMutex' = IF dbMutex = r THEN 0 ELSE dbMutex

CreateLock(r) ==
    /\ Running
    /\ req[r].pc = "lock"
    /\ Lock(r)
    /\ req' = [req EXCEPT ![r].pc = "select"]
    /\ UNCHANGED <<short_urls, domain, adminKey, returned, main>>

\* the mutant of selectExisting: a row that is found is not reused
selectSkipped(cleanURL, dbErr) ==
    IF dbErr
    THEN [pc |-> "return", code |-> "",
          w |-> Response(500, "Failed to check for existing short URL", <<>>)]
    ELSE [pc |-> "insert", code |-> "", w |-> NoResponse]

\* SELECT short_code FROM short_urls WHERE long_url = ? and what the handler
\* does with its three outcomes: where it goes next, what it writes, the
\* code it answers.  dbErr is a datastore error other than "no rows".
selectExisting(cleanURL, dbErr) ==
    IF dbErr
    THEN [pc |-> "return", code |-> "",
          w |-> Response(500, "Failed to check for existing short URL", <<>>)]
    ELSE IF RowsByURL(cleanURL) # {}
    THEN LET existingShortCode == (CHOOSE row \in RowsByURL(cleanURL) : TRUE).short_code
         IN  [pc |-> "return", code |-> existingShortCode,
              w |-> Response(200, ShortURL(existingShortCode), <<>>)]
    ELSE [pc |-> "insert", code |-> "", w |-> NoResponse]

\* the mutants of insertShortURL: on a code that is taken, another code is
\* generated and inserted when there is one; the UNIQUE constraint is
\* missing; the statement is REPLACE INTO
insertRetry(shortCode, cleanURL, dbErr) ==
    IF dbErr
    THEN [w |-> Response(500, "Failed to create short URL", <<>>),
          short_urls |-> short_urls]
    ELSE IF RowsByCode(shortCode) # {}
    THEN IF \A code \in Codes : RowsByCode(code) # {}
         THEN [w |-> Response(500, "Failed to create short URL", <<>>),
               short_urls |-> short_urls]
         ELSE LET code == CHOOSE code \in Codes : RowsByCode(code) = {}
              IN  [w |-> Response(200, ShortURL(code), <<>>),
                   short_urls |-> short_urls \cup {Row(code, cleanURL)}]
    ELSE [w |-> Response(200, ShortURL(shortCode), <<>>),
          short_urls |-> short_urls \cup {Row(shortCode, cleanURL)}]

insertNoUnique(shortCode, cleanURL, dbErr) ==
    IF dbErr
    THEN [w |-> Response(500, "Failed to create short URL", <<>>),
          short_urls |-> short_urls]
    ELSE [w |-> Response(200, ShortURL(shortCode), <<>>),
          short_urls |-> short_urls \cup {Row(shortCode, cleanURL)}]

insertReplace(shortCode, cleanURL, dbErr) ==
    IF dbErr
    THEN [w |-> Response(500, "Failed to create short URL", <<>>),
          short_urls |-> short_urls]
    ELSE [w |-> Response(200, ShortURL(shortCode), <<>>),
          short_urls |-> (short_urls \ RowsByCode(shortCode))
                            \cup {Row(shortCode, cleanURL)}]

\* INSERT INTO short_urls (short_code, long_url) VALUES (?, ?), short_code
\* being UNIQUE, and what the handler writes: the table it leaves
insertShortURL(shortCode, cleanURL, dbErr) ==
    IF dbErr \/ RowsByCode(shortCode) # {}
    THEN [w |-> Response(500, "Failed to create short URL", <<>>),
          short_urls |-> short_urls]
    ELSE [w |-> Response(200, ShortURL(shortCode), <<>>),
          short_urls |-> short_urls \cup {Row(shortCode, cleanURL)}]

CreateSelect(r, dbErr) ==
    /\ Running
    /\ req[r].pc = "select"
    /\ LET sel == selectExisting(req[r].cleanURL, dbErr)
       IN  /\ req' = [req EXCEPT ![r].pc = sel.pc, ![r].w = sel.w]
           /\ returned' = IF sel.w.status = 200
                          THEN returned \cup {Row(sel.code, req[r].cleanURL)}
                          ELSE returned
    /\ UNCHANGED <<short_urls, dbMutex, domain, adminKey, main>>

CreateInsert(r, dbErr) ==
    /\ Running
    /\ req[r].pc = "insert"
    /\ LET ins == insertShortURL(req[r].shortCode, req[r].cleanURL, dbErr)
       IN  /\ short_urls' = ins.short_urls
           /\ req' = [req EXCEPT ![r].pc = "return", ![r].w = ins.w]
           /\ returned' = IF ins.w.status = 200
                          THEN returned \cup {Row(req[r].shortCode, req[r].cleanURL)}
                          ELSE returned
    /\ UNCHANGED <<dbMutex, domain, adminKey, main>>

\* the handler returns
CreateReturn(r) ==
    /\ Running
    /\ req[r].pc = "return"
    /\ Unlock(r)
    /\ req' = [req EXCEPT ![r] = Idle]
    /\ main' = Returned(r)
    /\ UNCHANGED <<short_urls, domain, adminKey, returned>>

-----------------------------------------------------------------------------
(* handleShortURL and handleDeleteShortURL run one statement each on what
   the requests share: what they write, and the table they leave, are
   functions of the state and of the request.  Their connection is at
   "conn" until the statement has run; the request has completed then, and
   the connection is finishing it (FinishRequest). *)

\* the mutants of handleShortURL: the test of err inverted, and dropped
handleShortURLInverted(shortCode, dbErr) ==
    IF shortCode = ""
    THEN [w |-> Response(404, "404 page not found", <<>>), short_urls |-> short_urls]
    ELSE IF ~(dbErr \/ RowsByCode(shortCode) = {})
    THEN [w |-> Response(404, "404 page not found", <<>>), short_urls |-> short_urls]
    ELSE [w |-> Response(301, "", <<>>), short_urls |-> short_urls]

handleShortURLNoErrCheck(shortCode, dbErr) ==
    IF shortCode = ""
    THEN [w |-> Response(404, "404 page not found", <<>>), short_urls |-> short_urls]
    ELSE IF dbErr \/ RowsByCode(shortCode) = {}
    THEN [w |-> Response(301, "", <<>>), short_urls |-> short_urls]
    ELSE LET shortURL == CHOOSE row \in RowsByCode(shortCode) : TRUE
         IN  [w |-> Response(301, "", shortURL.long_url), short_urls |-> short_urls]

\* any error of the lookup, "no rows" or not, is answered 404
handleShortURL(shortCode, dbErr) ==
    IF shortCode = ""
    THEN [w |-> Response(404, "404 page not found", <<>>), short_urls |-> short_urls]
    ELSE IF dbErr \/ RowsByCode(shortCode) = {}
    THEN [w |-> Response(404, "404 page not found", <<>>), short_urls |-> short_urls]
    ELSE LET shortURL == CHOOSE row \in RowsByCode(shortCode) : TRUE
         IN  [w |-> Response(301, "", shortURL.long_url), short_urls |-> short_urls]

\* the mutant of handleDeleteShortURL: the empty code tested before the key
handleDeleteCodeFirst(shortCode, key, dbErr) ==
    IF shortCode = ""
    THEN [w |-> Response(404, "404 page not found", <<>>), short_urls |-> short_urls]
    ELSE IF key # adminKey
    THEN [w |-> Response(401, "Unauthorized", <<>>), short_urls |-> short_urls]
    ELSE IF dbErr
    THEN [w |-> Response(500, "Failed to delete short URL", <<>>), short_urls |-> short_urls]
    ELSE [w |-> Response(200, "Short URL deleted: " \o domain \o shortCode, <<>>),
          short_urls |-> short_urls \ RowsByCode(shortCode)]

\* the mutant of handleDeleteShortURL: a code without a row answered 404
handleDeleteNotFound(shortCode, key, dbErr) ==
    IF key # adminKey
    THEN [w |-> Response(401, "Unauthorized", <<>>), short_urls |-> short_urls]
    ELSE IF shortCode = "" \/ (~dbErr /\ RowsByCode(shortCode) = {})
    THEN [w |-> Response(404, "404 page not found", <<>>), short_urls |-> short_urls]
    ELSE IF dbErr
    THEN [w |-> Response(500, "Failed to delete short URL", <<>>), short_urls |-> short_urls]
    ELSE [w |-> Response(200, "Short URL deleted: " \o domain \o shortCode, <<>>),
          short_urls |-> short_urls \ RowsByCode(shortCode)]

handleDeleteShortURL(shortCode, key, dbErr) ==
    IF key # adminKey
    THEN [w |-> Response(401, "Unauthorized", <<>>), short_urls |-> short_urls]
    ELSE IF shortCode = ""
    THEN [w |-> Response(404, "404 page not found", <<>>), short_urls |-> short_urls]
    ELSE IF dbErr
    THEN [w |-> Response(500, "Failed to delete short URL", <<>>), short_urls |-> short_urls]
    ELSE [w |-> Response(200, "Short URL deleted: " \o domain \o shortCode, <<>>),
          short_urls |-> short_urls \ RowsByCode(shortCode)]

Redirect(r, shortCode, dbErr) ==
    /\ Running
    /\ req[r].pc = "conn"
    /\ short_urls' = handleShortURL(shortCode, dbErr).short_urls
    /\ req' = [req EXCEPT ![r] = Idle]
    /\ main' = Returned(r)
    /\ UNCHANGED <<dbMutex, domain, adminKey, returned>>

\* the mutant of Delete: the handler runs its statement under dbMutex, and
\* so waits while a create request holds it
DeleteUnderMutex(r, shortCode, key, dbErr) ==
    LET del == handleDeleteShortURL(shortCode, key, dbErr)
    IN  /\ Running
        /\ req[r].pc = "conn"
        /\ dbMutex = 0
        /\ short_urls' = del.short_urls
        /\ returned' = IF del.w.status = 200
                       THEN {row \in returned : row.short_code # shortCode}
                       ELSE returned
        /\ req' = [req EXCEPT ![r] = Idle]
        /\ main' = Returned(r)
        /\ UNCHANGED <<dbMutex, domain, adminKey>>

Delete(r, shortCode, key, dbErr) ==
    LET del == handleDeleteShortURL(shortCode, key, dbErr)
    IN  /\ Running
        /\ req[r].pc = "conn"
        /\ short_urls' = del.short_urls
        /\ returned' = IF del.w.status = 200
                       THEN {row \in returned : row.short_code # shortCode}
                       ELSE returned
        /\ req' = [req EXCEPT ![r] = Idle]
        /\ main' = Returned(r)
        /\ UNCHANGED <<dbMutex, domain, adminKey>>

-----------------------------------------------------------------------------

Next ==
    \/ \E r \in ReqIds : Accept(r)
    \/ \E r \in ReqIds, longURL \in LongURLs : CreateRecv(r, longURL)
    \/ \E r \in ReqIds : CreateProbe(r)
    \/ \E r \in ReqIds : CreateLock(r)
    \/ \E r \in ReqIds, dbErr \in BOOLEAN : CreateSelect(r, dbErr)
    \/ \E r \in ReqIds, dbErr \in BOOLEAN : CreateInsert(r, dbErr)
    \/ \E r \in ReqIds : CreateReturn(r)
    \/ \E r \in ReqIds : FinishRequest(r)
    \/ \E r \in ReqIds, shortCode \in PathCodes, dbErr \in BOOLEAN :
          Redirect(r, shortCode, dbErr)
    \/ \E r \in ReqIds, shortCode \in PathCodes, key \in AuthHeaders,
          dbErr \in BOOLEAN : Delete(r, shortCode, key, dbErr)

Spec == Init /\ [][Next]_vars

\* What the Go scheduler, sync.Mutex and a datastore whose calls return
\* give a create request: a goroutine that can run does run; a goroutine
\* waiting in Lock gets the mutex (sync.Mutex hands it to a waiter that has
\* waited for long); the lookup and the INSERT return.  Nothing is asked of
\* the probe, which has no timeout, nor of the arrival of requests.
Fairness ==
    \A r \in ReqIds :
        /\ SF_vars(CreateLock(r))
        /\ WF_vars(\E dbErr \in BOOLEAN : CreateSelect(r, dbErr))
        /\ WF_vars(\E dbErr \in BOOLEAN : CreateInsert(r, dbErr))
        /\ WF_vars(CreateReturn(r))

\* The long_url values under LiveSpec: absent, resolved through one
\* redirection (two of them, with different canonical URLs), unreachable
LiveURLs == {<<>>, HopA, HopB, Down}

LiveNext ==
    \/ \E r \in ReqIds : Accept(r)
    \/ \E r \in ReqIds, longURL \in LiveURLs : CreateRecv(r, longURL)
    \/ \E r \in ReqIds : CreateProbe(r)
    \/ \E r \in ReqIds : CreateLock(r)
    \/ \E r \in ReqIds, dbErr \in BOOLEAN : CreateSelect(r, dbErr)
    \/ \E r \in ReqIds, dbErr \in BOOLEAN : CreateInsert(r, dbErr)
    \/ \E r \in ReqIds : CreateReturn(r)
    \/ \E r \in ReqIds : FinishRequest(r)
    \/ \E r \in ReqIds, shortCode \in PathCodes, dbErr \in BOOLEAN :
          Redirect(r, shortCode, dbErr)
    \/ \E r \in ReqIds, shortCode \in PathCodes, key \in AuthHeaders,
          dbErr \in BOOLEAN : Delete(r, shortCode, key, dbErr)

LiveSpec == Init /\ [][LiveNext]_vars /\ Fairness

-----------------------------------------------------------------------------
(* func main, from db.Ping to the end of the process.  log.Fatal ends the
   process at once (pc = "fatal"); the return of main ends it too (pc =
   "exited").  The goroutine of server.Serve is started by the step Serve;
   when Serve fails (ServeError) it ends the process with log.Fatalf
   (ServeFatal), which can come after main has gone on.  An interrupt
   before signal.Notify is left out. *)

\* The long_url values under MainSpec: absent, resolved through one
\* redirection
MainURLs == {<<>>, HopA}

MainInit ==
    /\ short_urls = {}
    /\ dbMutex = 0
    /\ domain = ""
    /\ adminKey = ""
    /\ req = [r \in ReqIds |-> Idle]
    /\ returned = {}
    /\ main = [pc |-> "Ping", done |-> {}, busy |-> FALSE, failed |-> FALSE,
               lost |-> {}, finishing |-> {}]

\* main goes from the statement `at` to the statement `to`, or to log.Fatal
Step(at, ok, to) ==
    /\ main.pc = at
    /\ main' = IF ok
               THEN [main EXCEPT !.pc = to, !.done = @ \cup {at}]
               ELSE [main EXCEPT !.pc = "fatal"]

\* db.Ping()
Ping(ok) ==
    /\ Step("Ping", ok, "initDB")
    /\ UNCHANGED <<short_urls, dbMutex, domain, adminKey, req, returned>>

\* initDB(db): CREATE TABLE IF NOT EXISTS
initDB(ok) ==
    /\ Step("initDB", ok, "adminKey")
    /\ UNCHANGED <<short_urls, dbMutex, domain, adminKey, req, returned>>

\* adminKey = p.GetString("admin.key", "DEFAULT_KEY")
LoadAdminKey(value) ==
    /\ Step("adminKey", TRUE, "domain")
    /\ adminKey' = value
    /\ UNCHANGED <<short_urls, dbMutex, domain, req, returned>>

\* domain = p.GetString("main.domain", "http://localhost")
LoadDomain ==
    /\ Step("domain", TRUE, "Listen")
    /\ domain' = "http://localhost"
    /\ UNCHANGED <<short_urls, dbMutex, adminKey, req, returned>>

\* net.Listen("tcp", port)
Listen(ok) ==
    /\ Step("Listen", ok, "Serve")
    /\ UNCHANGED <<short_urls, dbMutex, domain, adminKey, req, returned>>

\* go server.Serve(listener); main goes on to <-quit
Serve ==
    /\ Step("Serve", TRUE, "quit")
    /\ UNCHANGED <<short_urls, dbMutex, domain, adminKey, req, returned>>

\* server.Serve returns an error other than ErrServerClosed: Accept on the
\* listener has failed while the server was not shutting down.  No new
\* connection is accepted from then on; the connections that are kept alive
\* still bring their requests.
ServeError ==
    /\ main.pc = "quit"
    /\ ~main.failed
    /\ main' = [main EXCEPT !.failed = TRUE]
    /\ UNCHANGED <<short_urls, dbMutex, domain, adminKey, req, returned>>

\* The goroutine of server.Serve calls log.Fatalf with the error of Serve,
\* wherever main is by then
ServeFatal ==
    /\ main.failed
    /\ main.pc \in {"quit", "Shutdown", "exiting"}
    /\ main' = [main EXCEPT !.pc = "fatal"]
    /\ UNCHANGED <<short_urls, dbMutex, domain, adminKey, req, returned>>

\* <-quit receives the interrupt and main calls server.Shutdown(ctx), which
\* closes the listener; the connections are as they were until it polls
Interrupt ==
    /\ main.pc = "quit"
    /\ main' = [main EXCEPT !.pc = "Shutdown"]
    /\ UNCHANGED <<short_urls, dbMutex, domain, adminKey, req, returned>>

\* server.Shutdown polls the connections (closeIdleConns).  It closes those
\* whose state is idle, so that no idle connection brings a request from
\* its first poll on; a connection that has sent nothing yet counts as one
\* of them once it is older than 5 seconds.  The state of a connection
\* becomes active only when its request has been read, so that a connection
\* at "conn" can be closed as idle: before its request is read, and its
\* goroutine ends (stale), or after, and its handler runs all the same on
\* the closed connection, unknown to Shutdown from then on (lost).  A
\* connection whose handler has returned is active until conn.serve has
\* finished the request (finishing).  When it knows of no connection that
\* is not idle Shutdown returns nil; else it waits for its timer or for
\* ctx.
ShutdownPoll(stale, lost) ==
    /\ main.pc = "Shutdown"
    /\ stale \cap lost = {}
    /\ \A r \in stale \cup lost : req[r].pc = "conn" /\ r \notin main.lost
    /\ req' = [r \in ReqIds |-> IF r \in stale THEN Idle ELSE req[r]]
    /\ LET gone == main.lost \cup lost
       IN  main' = IF \A r \in ReqIds \ (stale \cup gone) :
                          req[r].pc = "idle" /\ r \notin main.finishing
                   THEN [main EXCEPT !.pc = "exiting", !.lost = gone]
                   ELSE [main EXCEPT !.busy = TRUE, !.lost = gone]
    /\ UNCHANGED <<short_urls, dbMutex, domain, adminKey, returned>>

\* ctx.Done(): the 5 seconds have passed while Shutdown was waiting; it
\* returns ctx.Err() and main calls log.Fatal
ShutdownDeadline ==
    /\ main.pc = "Shutdown"
    /\ main.busy
    /\ main' = [main EXCEPT !.pc = "fatal"]
    /\ UNCHANGED <<short_urls, dbMutex, domain, adminKey, req, returned>>

\* Shutdown has returned nil: log.Println("Server exiting"), the deferred
\* calls, and main returns, which ends the process and the handlers that
\* still run
MainReturn ==
    /\ main.pc = "exiting"
    /\ main' = [main EXCEPT !.pc = "exited"]
    /\ UNCHANGED <<short_urls, dbMutex, domain, adminKey, req, returned>>

MainNext ==
    \/ \E ok \in BOOLEAN : Ping(ok)
    \/ \E ok \in BOOLEAN : initDB(ok)
    \/ \E value \in AdminKeys : LoadAdminKey(value)
    \/ LoadDomain
    \/ \E ok \in BOOLEAN : Listen(ok)
    \/ Serve
    \/ ServeError
    \/ ServeFatal
    \/ Interrupt
    \/ \E stale, lost \in SUBSET ReqIds : ShutdownPoll(stale, lost)
    \/ ShutdownDeadline
    \/ MainReturn
    \/ \E r \in ReqIds : Accept(r)
    \/ \E r \in ReqIds, longURL \in MainURLs : CreateRecv(r, longURL)
    \/ \E r \in ReqIds : CreateProbe(r)
    \/ \E r \in ReqIds : CreateLock(r)
    \/ \E r \in ReqIds, dbErr \in BOOLEAN : CreateSelect(r, dbErr)
    \/ \E r \in ReqIds, dbErr \in BOOLEAN : CreateInsert(r, dbErr)
    \/ \E r \in ReqIds : CreateReturn(r)
    \/ \E r \in ReqIds : FinishRequest(r)
    \/ \E r \in ReqIds, shortCode \in PathCodes, dbErr \in BOOLEAN :
          Redirect(r, shortCode, dbErr)
    \/ \E r \in ReqIds, shortCode \in PathCodes, key \in AuthHeaders,
          dbErr \in BOOLEAN : Delete(r, shortCode, key, dbErr)

\* Shutdown keeps polling, the timer of its context runs out, and main
\* goes on when Shutdown has returned; nothing is asked of the requests
MainFairness ==
    /\ WF_vars(\E stale, lost \in SUBSET ReqIds : ShutdownPoll(stale, lost))
    /\ WF_vars(ShutdownDeadline)
    /\ WF_vars(MainReturn)

MainSpec == MainInit /\ [][MainNext]_vars /\ MainFairness

-----------------------------------------------------------------------------
(* Properties *)

\* The requests that have a canonical URL: past the probe, before the return
PastProbe == {r \in ReqIds : req[r].pc \in {"lock", "select", "insert"}}

\* C1: in every reachable state, under any interleaving of create, redirect
\* and delete requests, the table holds at most one row per canonical
\* long_url; every code a create has answered for a canonical URL (no DELETE
\* having run for that code since) is the code of a row of the table for that
\* URL, so that the creates for one canonical URL, concurrent or not, have
\* put in one row and answered the same code.
C1_OneRowPerLongURL ==
    /\ \A a, b \in short_urls : a.long_url = b.long_url => a = b
    /\ returned \subseteq short_urls
    /\ \A a, b \in returned : a.long_url = b.long_url => a.short_code = b.short_code

\* C1, its case: two create requests in flight at the same time whose
\* different inputs have the same canonical URL; one has inserted the row
\* and answered its code, the other waits for the mutex.
C1_Witness ==
    \E r1, r2 \in ReqIds :
        /\ req[r1].pc = "return"
        /\ req[r1].w = Response(200, ShortURL(req[r1].shortCode), <<>>)
        /\ req[r2].pc = "lock"
        /\ req[r2].longURL # req[r1].longURL
        /\ req[r2].cleanURL = req[r1].cleanURL
        /\ Row(req[r1].shortCode, req[r1].cleanURL) \in short_urls

\* C2: idempotence of create.  A create request whose lookup finds no row
\* and whose INSERT succeeds answers 200 with domain/code and leaves exactly
\* one row for its canonical URL u; a create request for u that runs its
\* lookup after a create has answered 200 with code c for u (no DELETE having
\* run for c since), the lookup meeting no datastore error, answers 200 with
\* the same short_url domain/c, goes to its return without an INSERT, and
\* the table holds exactly one row with long_url = u.
C2_CreateIdempotent ==
    \A r \in ReqIds :
        /\ req[r].pc = "insert" /\ RowsByCode(req[r].shortCode) = {} =>
              LET ins == insertShortURL(req[r].shortCode, req[r].cleanURL, FALSE)
              IN  /\ ins.w = Response(200, ShortURL(req[r].shortCode), <<>>)
                  /\ {row \in ins.short_urls : row.long_url = req[r].cleanURL}
                        = {Row(req[r].shortCode, req[r].cleanURL)}
        /\ req[r].pc = "select" =>
              \A row \in returned :
                  row.long_url = req[r].cleanURL =>
                      LET sel == selectExisting(req[r].cleanURL, FALSE)
                      IN  /\ sel.w = Response(200, ShortURL(row.short_code), <<>>)
                          /\ sel.pc = "return"
                          /\ RowsByURL(req[r].cleanURL) = {row}

\* C2, its case: a second create for a canonical URL has answered the code
\* of the row the first one inserted, which is not the code it generated.
C2_Witness ==
    \E r \in ReqIds :
        \E row \in returned :
            /\ req[r].pc = "return"
            /\ row.long_url = req[r].cleanURL
            /\ row.short_code # req[r].shortCode
            /\ req[r].w = Response(200, ShortURL(row.short_code), <<>>)
            /\ RowsByURL(req[r].cleanURL) = {row}

\* C3: round trip.  For every code c a create has answered 200 with for the
\* canonical URL u, as long as no DELETE has run for c, a redirect request
\* for c whose lookup meets no datastore error answers 301 with Location
\* exactly u, and leaves the table as it is.
C3_RoundTrip ==
    \A row \in returned :
        handleShortURL(row.short_code, FALSE)
            = [w |-> Response(301, "", row.long_url), short_urls |-> short_urls]

\* C3, its case: a create has answered a code for a URL it reached through
\* a redirection, and the redirect request for that code answers 301.
C3_Witness ==
    \E row \in returned :
        /\ row.long_url = HopB
        /\ handleShortURL(row.short_code, FALSE).w.status = 301

\* C4: a delete request whose Authorization header is not exactly the admin
\* key answers 401 and leaves the table as it is, for every code, the empty
\* one included and whatever the datastore would do; only a request with the
\* matching key answers anything else or changes the table.
C4_DeleteNeedsKey ==
    \A shortCode \in PathCodes, key \in AuthHeaders, dbErr \in BOOLEAN :
        LET del == handleDeleteShortURL(shortCode, key, dbErr)
        IN  /\ key # adminKey =>
                  del = [w |-> Response(401, "Unauthorized", <<>>),
                         short_urls |-> short_urls]
            /\ (del.w.status # 401 \/ del.short_urls # short_urls) => key = adminKey

\* C4, its case: the table has a row, and a delete request for its code with
\* a key that differs from the admin key only in case answers 401.
C4_Witness ==
    \E row \in short_urls :
        /\ adminKey = "DEFAULT_KEY"
        /\ handleDeleteShortURL(row.short_code, "default_key", FALSE).w.status = 401
        /\ handleDeleteShortURL("", "default_key", FALSE).w.status = 401

\* C5 (as claimed): a delete request without an Authorization header answers
\* 401 and deletes nothing, whatever admin.key is set to, the empty value
\* included.
C5_MissingKeyUnauthorized ==
    \A shortCode \in PathCodes, dbErr \in BOOLEAN :
        LET del == handleDeleteShortURL(shortCode, "", dbErr)
        IN  /\ del.w.status = 401
            /\ del.short_urls = short_urls

\* C6 (as claimed): a datastore error other than "no rows" is answered 500
\* on every endpoint: the lookup of redirect, the lookup and the INSERT of
\* create, the DELETE of delete.
C6_DatastoreErrorIs500 ==
    /\ \A shortCode \in Codes : handleShortURL(shortCode, TRUE).w.status = 500
    /\ \A r \in ReqIds :
          /\ req[r].pc = "select" => selectExisting(req[r].cleanURL, TRUE).w.status = 500
          /\ req[r].pc = "insert" =>
                insertShortURL(req[r].shortCode, req[r].cleanURL, TRUE).w.status = 500
    /\ \A shortCode \in Codes :
          handleDeleteShortURL(shortCode, adminKey, TRUE).w.status = 500

\* The URL without its query: what precedes the first "?" and, when there
\* is a "#", the "#" and what follows it
WithoutQuery(urlStr) ==
    CutBefore(CutBefore(urlStr, "#"), "?")
    \o (IF "#" \in Range(urlStr) THEN <<"#">> \o CutAfter(urlStr, "#") ELSE <<>>)

\* C7 (as claimed): two create requests for URLs that differ only in their
\* query, the probe answering no redirect, have the same canonical URL, the
\* input without its query, and so one row and one code.
C7_QueryOnlyDifferenceDedups ==
    \A r1, r2 \in PastProbe :
        /\ WithoutQuery(req[r1].longURL) = WithoutQuery(req[r2].longURL)
        /\ Web(req[r1].longURL).StatusCode \notin 300..399
        /\ Web(req[r2].longURL).StatusCode \notin 300..399
        => /\ req[r1].cleanURL = req[r2].cleanURL
           /\ req[r1].cleanURL = WithoutQuery(req[r1].longURL)

\* The URL that the Location of the response to longURL names: the value of
\* the header taken as a reference at the URL requested, in the form net/url
\* writes
Target(longURL) ==
    URLString(ResolveReference(Parse(longURL), Parse(Web(longURL).loc)))

\* What C8 says is stored for a submitted URL whose probe is answered
Resolved(longURL) ==
    IF Web(longURL).StatusCode \in 300..399
    THEN removeQueryParams(Target(longURL))
    ELSE removeQueryParams(longURL)

\* C8: redirect resolution.  For a create request past its probe: when the
\* probe was answered with a status in 300..399 and a Location L that parses,
\* the canonical URL is the URL that L names, without its query, not the
\* submitted URL; when the status is outside 300..399 it is the submitted
\* URL without its query; one hop only is resolved, L being kept even when L
\* redirects.  So the relative Location of HopA gives HopB, and the Location
\* of HopB, with its upper-case scheme and its dot elements, gives Page.
\* The row that the INSERT stores has that canonical URL as its long_url.
C8_RedirectResolution ==
    \A r \in PastProbe :
        /\ ~Web(req[r].longURL).fail
        /\ Web(req[r].longURL).StatusCode \in 300..399
              => /\ Web(req[r].longURL).hasLoc
                 /\ Web(req[r].longURL).loc # <<>>
                 /\ ~Parse(Web(req[r].longURL).loc).err
        /\ req[r].cleanURL = Resolved(req[r].longURL)
        /\ req[r].longURL = HopA => req[r].cleanURL = HopB
        /\ req[r].longURL = HopB => req[r].cleanURL = Page
        /\ req[r].pc = "insert" /\ RowsByCode(req[r].shortCode) = {} =>
              insertShortURL(req[r].shortCode, req[r].cleanURL, FALSE).short_urls
                  = short_urls \cup {Row(req[r].shortCode, Resolved(req[r].longURL))}

\* C8, its case: the submitted URL redirects to a relative Location with a
\* query, which itself redirects further; the INSERT is about to store the
\* URL the Location names, without its query.  Another request's URL was answered 400 with a
\* Location header, and is kept.
C8_Witness ==
    \E r1, r2 \in ReqIds :
        /\ req[r1].pc = "insert"
        /\ req[r1].longURL = HopA
        /\ req[r1].cleanURL = HopB
        /\ Web(HopA).loc = <<"b", "?", "k=1">>
        /\ Target(HopA) = HopBK
        /\ Web(HopB).StatusCode \in 300..399
        /\ req[r2].pc = "lock"
        /\ req[r2].longURL = PageX
        /\ req[r2].cleanURL = Page

\* C9: a create request whose long_url is absent or empty answers 400 and
\* goes straight to its return: it is never at the probe, never waits for or
\* holds the mutex, never at the lookup or the INSERT, and no row is made
\* for it.
C9_MissingParameter ==
    /\ \A r \in ReqIds :
          req[r].pc \notin {"idle", "conn"} /\ req[r].longURL = <<>> =>
              /\ req[r].pc = "return"
              /\ req[r].w = Response(400, "Missing long_url parameter", <<>>)
              /\ dbMutex # r
              /\ req[r].cleanURL = <<>>
              /\ req[r].shortCode = ""
    /\ \A row \in short_urls : row.long_url # <<>>

\* C9, its case: a request without long_url has answered 400 while another
\* create request holds the mutex.
C9_Witness ==
    \E r1, r2 \in ReqIds :
        /\ req[r1].pc = "return"
        /\ req[r1].w.status = 400
        /\ dbMutex = r2
        /\ r2 # r1

\* C10: a redirect request for a code that has no row in the table, or for
\* the empty code, answers 404 and leaves the table as it is, whatever the
\* datastore does; this holds as well of a code whose row a delete removed.
C10_UnknownCode ==
    \A shortCode \in PathCodes, dbErr \in BOOLEAN :
        shortCode = "" \/ RowsByCode(shortCode) = {} =>
            handleShortURL(shortCode, dbErr)
                = [w |-> Response(404, "404 page not found", <<>>),
                   short_urls |-> short_urls]

\* C10, its case: a create has answered 200 with a code and has not yet
\* returned, a delete has removed the row of that code, and the redirect for
\* the code answers 404.
C10_Witness ==
    \E r \in ReqIds :
        /\ req[r].pc = "return"
        /\ req[r].w = Response(200, ShortURL(req[r].shortCode), <<>>)
        /\ RowsByCode(req[r].shortCode) = {}
        /\ handleShortURL(req[r].shortCode, FALSE).w.status = 404

\* The create requests between the dedup lookup and the INSERT
InCritical == {r \in ReqIds : req[r].pc \in {"select", "insert"}}

\* The responses a create handler writes before it comes to dbMutex.Lock()
BeforeLock == {Response(400, "Missing long_url parameter", <<>>),
               Response(500, "Failed to resolve redirection", <<>>)}

\* C11: mutual exclusion of the create critical section.  In every reachable
\* state at most one create request is between its dedup lookup and its
\* INSERT or response, and that request holds the mutex; a request that has
\* written a response of the critical section and has not returned holds it
\* too; no request holds the mutex while it is idle, in its probe or waiting
\* for the lock, so that the probes of any number of requests run at the
\* same time, and at the same time as the critical section of another.
C11_MutualExclusion ==
    /\ Cardinality(InCritical) <= 1
    /\ \A r \in InCritical : dbMutex = r
    /\ \A r \in ReqIds :
          /\ req[r].pc \in {"idle", "conn", "probe", "lock"} => dbMutex # r
          /\ req[r].pc = "return" => (dbMutex = r <=> req[r].w \notin BeforeLock)

\* C11, its case: a request holds the mutex before its INSERT while another
\* request with the same input is in its probe.
C11_Witness ==
    \E r1, r2 \in ReqIds :
        /\ req[r1].pc = "insert"
        /\ dbMutex = r1
        /\ req[r2].pc = "probe"
        /\ req[r2].longURL = req[r1].longURL

\* C12: the mutex is released on every exit path of the critical section:
\* whatever a create handler has answered (the code of an existing row, the
\* failure of the lookup, the failure of the INSERT, the new code), the step
\* by which it returns leaves the mutex not held by it.  Hence, with fair
\* scheduling and datastore calls that return, a request whose probe has
\* returned a URL comes to its response, and a mutex that is held is
\* released, whatever the other requests do: a request that stays in its
\* probe for ever holds up no other.
C12_MutexReleased ==
    /\ [][\A r \in ReqIds :
            req[r].pc = "return" /\ req'[r].pc # "return" => dbMutex' # r]_vars
    /\ \A r \in ReqIds : (req[r].pc = "lock") ~> (req[r].pc = "return")
    /\ \A r \in ReqIds : (dbMutex = r) ~> (dbMutex # r)

\* C12, its case: a request has left the critical section by the failure of
\* its INSERT and is about to return with the mutex, while another request
\* is in its probe.
C12_Witness ==
    \E r1, r2 \in ReqIds :
        /\ req[r1].pc = "return"
        /\ req[r1].w = Response(500, "Failed to create short URL", <<>>)
        /\ dbMutex = r1
        /\ req[r2].pc = "probe"

\* C13: redirect and delete requests neither take nor wait for the mutex.
\* In every reachable state in which a create request holds the mutex,
\* others waiting for it or not, each redirect request and each authorized
\* delete request that a connection brings can run, to the end, and leaves
\* the mutex and the other requests as they are; an authorized delete for
\* the code of a row removes the row, a create request being between its
\* lookup and its return.
C13_NoMutexOnRedirectDelete ==
    dbMutex # 0 =>
        \A r \in ReqIds :
            req[r].pc = "conn" =>
                /\ \A shortCode \in PathCodes, dbErr \in BOOLEAN :
                      /\ ENABLED (/\ Redirect(r, shortCode, dbErr)
                                  /\ dbMutex' = dbMutex
                                  /\ req' = [req EXCEPT ![r] = Idle])
                      /\ ENABLED (/\ Delete(r, shortCode, adminKey, dbErr)
                                  /\ dbMutex' = dbMutex
                                  /\ req' = [req EXCEPT ![r] = Idle])
                /\ \A row \in short_urls :
                      ENABLED (/\ Delete(r, row.short_code, adminKey, FALSE)
                               /\ row \notin short_urls'
                               /\ dbMutex' = dbMutex)

\* C13, its case: a create request found the row of its canonical URL by
\* its lookup, answered the code of the row, and still holds the mutex; the
\* row is gone, deleted since the lookup.
C13_Witness ==
    \E r \in ReqIds :
        \E code \in Codes :
            /\ req[r].pc = "return"
            /\ dbMutex = r
            /\ code # req[r].shortCode
            /\ req[r].w = Response(200, ShortURL(code), <<>>)
            /\ RowsByCode(code) = {}
            /\ RowsByURL(req[r].cleanURL) = {}

\* C14: short-code collision.  When the INSERT of a create request, whose
\* canonical URL has no row, carries a code that a row of the table has,
\* the step of the INSERT answers 500, leaves the table as it is (no row
\* for the new URL, the row of the code intact) and takes the request to its
\* return with the code it had: no other code is generated, nothing is
\* inserted later; the return releases the mutex.
C14_ShortCodeCollision ==
    [][\A r \in ReqIds :
          /\ req[r].pc = "insert" /\ req'[r] # req[r]
             /\ RowsByCode(req[r].shortCode) # {}
             /\ RowsByURL(req[r].cleanURL) = {}
             => /\ req'[r].pc = "return"
                /\ req'[r].w = Response(500, "Failed to create short URL", <<>>)
                /\ req'[r].shortCode = req[r].shortCode
                /\ short_urls' = short_urls
                /\ dbMutex' = r
          /\ req[r].pc = "return" /\ req'[r] # req[r]
             => /\ req'[r] = Idle
                /\ dbMutex' # r
                /\ short_urls' = short_urls]_vars

\* C14, its case: a request has answered 500 from its INSERT, the code it
\* generated being that of the row of another URL, which is still there; its
\* own URL has no row.
C14_Witness ==
    \E r \in ReqIds :
        \E row \in short_urls :
            /\ req[r].pc = "return"
            /\ req[r].w = Response(500, "Failed to create short URL", <<>>)
            /\ row.short_code = req[r].shortCode
            /\ row.long_url # req[r].cleanURL
            /\ RowsByURL(req[r].cleanURL) = {}

\* C15: in every reachable state, after any sequence and interleaving of
\* create, redirect and delete requests, no two rows of the table have the
\* same short_code.
C15_ShortCodeUnique ==
    \A a, b \in short_urls : a.short_code = b.short_code => a = b

\* C15, its case: every code is the code of a row, and a create request for
\* one more URL has had its INSERT refused.
C15_Witness ==
    \E r \in ReqIds :
        /\ {row.short_code : row \in short_urls} = Codes
        /\ req[r].pc = "return"
        /\ req[r].w = Response(500, "Failed to create short URL", <<>>)
        /\ \A row \in short_urls : row.long_url # req[r].cleanURL

\* C16: row lifecycle.  In every step: a row of the table that is not in
\* the table afterwards has been removed by a delete request carrying the
\* admin key and the code of that row; a row that is new has a code that no
\* row had, and comes with the removal of no row, so that no row's code or
\* long_url is ever changed; the steps of create requests remove no row,
\* and the table a redirect request for the code of a row leaves is the
\* table it found.
C16_RowLifecycle ==
    [][/\ \A row \in short_urls :
             row \notin short_urls' =>
                 \E r \in ReqIds, key \in AuthHeaders :
                     key = adminKey /\ Delete(r, row.short_code, key, FALSE)
       /\ \A row \in short_urls' \ short_urls :
             /\ RowsByCode(row.short_code) = {}
             /\ short_urls' = short_urls \cup {row}
             /\ \E r \in ReqIds :
                   /\ req[r].pc = "insert"
                   /\ row = Row(req[r].shortCode, req[r].cleanURL)
       /\ (\E r \in ReqIds : req[r].pc \notin {"idle", "conn"} /\ req'[r] # req[r])
             => short_urls \subseteq short_urls'
       /\ \A row \in short_urls, dbErr \in BOOLEAN :
             handleShortURL(row.short_code, dbErr).short_urls = short_urls]_vars

\* C16, its case: with the default admin key, the row of a code that a
\* create request answered is gone, an authorized delete having run for the
\* code, while the row of another code, inserted before, is as it was.
C16_Witness ==
    \E r \in ReqIds :
        /\ adminKey = "DEFAULT_KEY"
        /\ req[r].pc = "return"
        /\ req[r].w = Response(200, ShortURL(req[r].shortCode), <<>>)
        /\ RowsByCode(req[r].shortCode) = {}
        /\ \E row \in short_urls \cap returned : row.short_code # req[r].shortCode

\* C17: the effect of an authorized delete for a code c that is not empty,
\* the DELETE statement succeeding: it answers 200 and leaves the table
\* without the rows of code c and with every other row; when no row has the
\* code c it answers 200 all the same, never 404, and leaves the table as it
\* is.  The table it leaves has no row of code c, so the same delete again
\* answers 200 and changes nothing.
C17_AuthorizedDelete ==
    \A shortCode \in Codes :
        LET del == handleDeleteShortURL(shortCode, adminKey, FALSE)
        IN  /\ del.w.status = 200
            /\ del.short_urls = {row \in short_urls : row.short_code # shortCode}
            /\ {row \in del.short_urls : row.short_code = shortCode} = {}
            /\ RowsByCode(shortCode) = {} => del.short_urls = short_urls

\* C17, its case: a create request answered a code, and an authorized
\* delete has removed the row of that code and left the row of another code;
\* the same delete again is answered 200 and leaves the table as it is, and
\* the delete for the other code would remove that row only.
C17_Witness ==
    \E r \in ReqIds :
        \E a \in short_urls :
            LET again == handleDeleteShortURL(req[r].shortCode, adminKey, FALSE)
                other == handleDeleteShortURL(a.short_code, adminKey, FALSE)
            IN  /\ req[r].pc = "return"
                /\ req[r].w = Response(200, ShortURL(req[r].shortCode), <<>>)
                /\ RowsByCode(req[r].shortCode) = {}
                /\ again.w.status = 200
                /\ again.short_urls = short_urls
                /\ other.w.status = 200
                /\ other.short_urls = short_urls \ {a}

\* The probe of a submitted URL cannot be completed, or is answered with a
\* status in 300..399 and a Location that is missing, empty or does not
\* parse
Unresolvable(longURL) ==
    /\ longURL # <<>>
    /\ \/ Web(longURL).fail
       \/ /\ Web(longURL).StatusCode \in 300..399
          /\ \/ ~Web(longURL).hasLoc
             \/ Web(longURL).loc = <<>>
             \/ Parse(Web(longURL).loc).err

UnresolvableURLs == {longURL \in LongURLs : Unresolvable(longURL)}

\* C18: resolution failure.  A create request whose submitted URL is
\* unresolvable is only ever at its probe or at its return: it never waits
\* for nor holds the mutex, has no canonical URL and no code, is never at
\* the lookup or the INSERT.  Its probe step answers 500 and goes to the
\* return, the table and the mutex as they were; from the return the handler
\* ends, without another probe, the table and the mutex as they were.
C18_ResolutionFailure ==
    [][\A r \in ReqIds :
          req[r].longURL \in UnresolvableURLs =>
              /\ req[r].pc \in {"probe", "return"}
              /\ dbMutex # r
              /\ req[r].cleanURL = <<>> /\ req[r].shortCode = ""
              /\ req'[r] # req[r] =>
                    /\ short_urls' = short_urls
                    /\ dbMutex' = dbMutex
                    /\ IF req[r].pc = "probe"
                       THEN req'[r] = [req[r] EXCEPT
                               !.pc = "return",
                               !.w = Response(500, "Failed to resolve redirection", <<>>)]
                       ELSE req'[r] = Idle]_vars

\* C18, its case: one request whose probe met a transport failure and one
\* whose probe was answered 300 with a Location that does not parse have
\* both answered 500; the table has a row, the mutex is free.
C18_Witness ==
    \E r1, r2 \in ReqIds :
        /\ req[r1].longURL = Down
        /\ req[r2].longURL = BadLoc
        /\ \A r \in {r1, r2} :
              /\ req[r].pc = "return"
              /\ req[r].w = Response(500, "Failed to resolve redirection", <<>>)
        /\ short_urls # {}
        /\ dbMutex = 0

\* The process has ended
Terminated == main.pc \in {"exited", "fatal"}

\* The connections that are not idle
InFlight == {r \in ReqIds : req[r].pc # "idle"}

\* C19 (as claimed): once main has taken the interrupt and called Shutdown,
\* no new request is accepted: no handler starts, and no row is deleted;
\* and the process ends only when every request in flight has completed,
\* or by Shutdown's deadline.
C19_ShutdownAsClaimed ==
    [][/\ main.pc = "Shutdown" =>
             /\ \A r \in ReqIds :
                   req[r].pc \in {"idle", "conn"} =>
                       req'[r].pc \in {"idle", "conn"}
             /\ short_urls \subseteq short_urls'
       /\ main.pc \in {"Shutdown", "exiting"} /\ Terminated' =>
             \/ InFlight = {}
             \/ main.pc = "Shutdown" /\ main.busy /\ ~main.failed]_vars

\* C19: startup and graceful shutdown.  A step of a connection is taken
\* only when db.Ping, initDB, the loading of adminKey and domain, net.Listen
\* and the start of Serve have all completed.  Once main has taken the
\* interrupt and Shutdown has closed the listener and the idle connections
\* (its first poll), no request comes in; a connection that was not idle
\* then can still bring its request, which is served, and a request in
\* flight can still take its step.  Shutdown returns nil only when every
\* connection is idle or closed, which a connection is not yet when its
\* handler has just returned, but for those it has closed after their
\* request was read: their handlers run on, and are abandoned when main
\* returns, which it does only after Shutdown has returned nil.  log.Fatal
\* comes of Shutdown's deadline, after Shutdown has seen a connection that
\* is not idle, or of the failure of Serve, which happens only while main
\* waits for the interrupt, the call of log.Fatalf coming then or later;
\* after the end nothing changes any more: the requests in flight then are
\* abandoned.  And the process does end: from Shutdown, it reaches its end.
C19_GracefulShutdown ==
    /\ [][/\ (req' # req \/ short_urls' # short_urls) =>
                /\ main.done = Range(Startup)
                /\ main.pc \in {"quit", "Shutdown", "exiting"}
                /\ domain = "http://localhost"
          /\ main.pc # "quit" /\ (main.pc = "Shutdown" => main.busy) =>
                \A r \in ReqIds : req[r].pc = "idle" => req'[r].pc = "idle"
          /\ main.pc \in {"Shutdown", "exiting"} =>
                \A r \in ReqIds :
                    /\ req[r].pc = "return" => ENABLED CreateReturn(r)
                    /\ req[r].pc = "conn" =>
                          /\ ENABLED Redirect(r, "c1", FALSE)
                          /\ ENABLED Delete(r, "c1", adminKey, FALSE)
                          /\ ENABLED CreateRecv(r, HopA)
          /\ main'.pc = "exiting" /\ main.pc # "exiting" =>
                /\ main.pc = "Shutdown"
                /\ \A r \in ReqIds :
                      \/ req'[r] = Idle /\ r \notin main.finishing
                      \/ req[r].pc = "conn" /\ req'[r] = req[r] /\ r \in main'.lost
                      \/ r \in main.lost /\ req'[r] = req[r]
          /\ main.pc = "exiting" => main'.lost \subseteq main.lost
          /\ main'.pc = "exited" => main.pc = "exiting" /\ req' = req
          /\ main'.pc = "fatal" /\ "Serve" \in main.done =>
                /\ req' = req
                /\ \/ main.pc = "Shutdown" /\ main.busy
                   \/ main.failed
          /\ main'.failed /\ ~main.failed => main.pc = "quit" /\ req' = req
          /\ ~Terminated]_vars
    /\ (main.pc = "Shutdown") ~> Terminated

\* C19, its case: Serve has not failed; Shutdown has closed a connection
\* whose request had been read, and found another that is not idle; the
\* handler of the first has run up to its probe; the deadline has passed
\* and the process has ended by log.Fatal, both requests abandoned, a row
\* inserted before in the table.
C19_Witness ==
    \E r, q \in ReqIds :
        /\ main.pc = "fatal"
        /\ main.busy
        /\ ~main.failed
        /\ "Serve" \in main.done
        /\ r \in main.lost
        /\ req[r].pc = "probe"
        /\ q \notin main.lost
        /\ req[q].pc = "conn"
        /\ short_urls # {}

====
